---------------------------- MODULE Spec2Model ----------------------------
(***************************************************************************)
(* Model of tools/compiler/buildDatabase.py: the package-index builder.    *)
(*                                                                         *)
(* Text is modelled as a sequence of atoms.  An atom is either a one       *)
(* character separator (":", "/", "?", "#", ",", " ", "\n", "[", "]") or a *)
(* word that holds no separator ("https", "github.com", "alice", ".git").  *)
(* Every pattern the code searches for ("://", "github.com/", "/tree/",    *)
(* ".git", "raw.githubusercontent.com") is a sequence of whole atoms, and  *)
(* no word atom of the alphabets below holds one of them as a proper part, *)
(* so a search over atoms finds exactly what the search over characters    *)
(* finds.                                                                  *)
(***************************************************************************)
EXTENDS Integers, Sequences, FiniteSets, TLC

\* --------------------------------------------------------------- text

Whitespace == {" ", "\n"}

\* s[a..b] as a sequence (empty when b < a).
Slice(s, a, b) == IF b < a THEN <<>> ELSE SubSeq(s, a, b)

\* str.startswith / str.endswith
StartsWith(s, p) == Len(s) >= Len(p) /\ Slice(s, 1, Len(p)) = p

EndsWith(s, p) == Len(s) >= Len(p) /\ Slice(s, Len(s) - Len(p) + 1, Len(s)) = p

\* str.find, 1-based: the first place p occurs in s, 0 when it does not.
Find(s, p) ==
  LET hits == {i \in 1..(Len(s) - Len(p) + 1) : Slice(s, i, i + Len(p) - 1) = p}
  IN IF hits = {} THEN 0 ELSE CHOOSE i \in hits : \A j \in hits : i <= j

\* p in s
Contains(s, p) == Find(s, p) > 0

\* str.replace(p, ""): every occurrence of p removed, left to right.
RECURSIVE Remove(_, _)
Remove(s, p) ==
  LET i == Find(s, p)
  IN IF i = 0 THEN s
     ELSE Slice(s, 1, i - 1) \o Remove(Slice(s, i + Len(p), Len(s)), p)

\* str.split(p): the pieces of s between the occurrences of p.
RECURSIVE Split(_, _)
Split(s, p) ==
  LET i == Find(s, p)
  IN IF i = 0 THEN <<s>>
     ELSE <<Slice(s, 1, i - 1)>> \o Split(Slice(s, i + Len(p), Len(s)), p)

\* str.lstrip(chars) / str.rstrip(chars) / str.strip()
RECURSIVE LStrip(_, _)
LStrip(s, chars) ==
  IF s # <<>> /\ Head(s) \in chars THEN LStrip(Tail(s), chars) ELSE s

RECURSIVE RStrip(_, _)
RStrip(s, chars) ==
  IF s # <<>> /\ s[Len(s)] \in chars
  THEN RStrip(Slice(s, 1, Len(s) - 1), chars) ELSE s

Strip(s) == RStrip(LStrip(s, Whitespace), Whitespace)

\* "/".join(parts)
RECURSIVE Join(_, _)
Join(parts, sep) ==
  IF parts = <<>> THEN <<>>
  ELSE IF Len(parts) = 1 THEN parts[1]
  ELSE parts[1] \o sep \o Join(Tail(parts), sep)

\* ---------------------------------------------------------- urllib.parse

\* Word atoms made only of the characters a URL scheme may hold.
SchemeWords ==
  {"https", "http", "ftp", "github.com", "raw.githubusercontent.com",
   "example.org", "alice", "bob", "pkg", "pkgX", "pkgY", "tree", "main", "dev",
   "sub", "dir", "file.ext"}

\* The first place any atom of `stops` occurs in s, Len(s) + 1 when none does.
FirstOf(s, stops) ==
  LET hits == {i \in 1..Len(s) : s[i] \in stops}
  IN IF hits = {} THEN Len(s) + 1 ELSE CHOOSE i \in hits : \A j \in hits : i <= j

\* urllib.parse.urlparse, for the text before any "?" or "#": the scheme is
\* what precedes the first ":" when that is all scheme characters; the netloc
\* is what lies between a leading "//" and the next "/".  An unmatched "[" or
\* "]" in the netloc makes urlparse raise ValueError.
UrlParse(url) ==
  LET cut   == FirstOf(url, {"?", "#"})
      body  == Slice(url, 1, cut - 1)
      colon == FirstOf(body, {":"})
      isSch == /\ colon <= Len(body)
               /\ colon > 1
               /\ \A k \in 1..(colon - 1) : body[k] \in SchemeWords
      rest  == IF isSch THEN Slice(body, colon + 1, Len(body)) ELSE body
      hasNl == StartsWith(rest, <<"/", "/">>)
      after == Slice(rest, 3, Len(rest))
      nlEnd == FirstOf(after, {"/"})
      nl    == IF hasNl THEN Slice(after, 1, nlEnd - 1) ELSE <<>>
  IN [scheme |-> IF isSch THEN Slice(body, 1, colon - 1) ELSE <<>>,
      netloc |-> nl,
      path   |-> IF hasNl THEN Slice(after, nlEnd, Len(after)) ELSE rest,
      tail   |-> Slice(url, cut, Len(url)),
      raises |-> Contains(nl, <<"[">>) # Contains(nl, <<"]">>)]

\* ParseResult.geturl(): scheme, "://" netloc and path put together again.
GetUrl(parsed) ==
  LET withNl == IF parsed.netloc # <<>>
                THEN <<"/", "/">> \o parsed.netloc \o parsed.path
                ELSE parsed.path
  IN (IF parsed.scheme # <<>> THEN parsed.scheme \o <<":">> ELSE <<>>)
       \o withNl \o parsed.tail

\* -------------------------------------------------------- URL normalizer

DEFAULT_REPOSITORY_BRANCH == <<"main">>

HttpsPrefix == <<"https", ":", "/", "/">>

HttpPrefix == <<"http", ":", "/", "/">>

\* _normalize_repository_url
NormalizeRepositoryUrl(value) ==
  LET url == Strip(value)
  IN IF url = <<>> THEN url
     ELSE IF ~Contains(url, <<":", "/", "/">>) THEN HttpsPrefix \o url
     ELSE url

\* _strip_query_and_fragment
StripQueryAndFragment(url) == GetUrl([UrlParse(url) EXCEPT !.tail = <<>>])

\* _strip_file_name
StripFileName(url) ==
  LET parsed  == UrlParse(url)
      path    == parsed.path
      pieces  == Split(path, <<"/">>)
      trimmed == Join(Slice(pieces, 1, Len(pieces) - 1), <<"/">>) \o <<"/">>
  IN IF EndsWith(path, <<"/">>) THEN url
     ELSE GetUrl([parsed EXCEPT !.path = trimmed])

\* _ensure_trailing_slash
EnsureTrailingSlash(url) == IF EndsWith(url, <<"/">>) THEN url ELSE url \o <<"/">>

RawHost == <<"raw.githubusercontent.com">>

GithubSlash == <<"github.com", "/">>

TreeMarker == <<"/", "tree", "/">>

\* _build_raw_base, lines 76-97: the github.com branch.
GithubRawBase(clean) ==
  LET noScheme  == Remove(Remove(clean, HttpsPrefix), HttpPrefix)
      hostIndex == Find(noScheme, GithubSlash)
      afterHost == IF hostIndex >= 1
                   THEN Slice(noScheme, hostIndex + Len(GithubSlash), Len(noScheme))
                   ELSE noScheme
      repoPath0 == LStrip(afterHost, {"/"})
      hasTree   == Contains(repoPath0, TreeMarker)
      parts     == Split(repoPath0, TreeMarker)
      repoPath1 == IF hasTree THEN parts[1] ELSE repoPath0
      branchPart == parts[2]
      slashIndex == Find(branchPart, <<"/">>)
      branch    == IF hasTree /\ Len(parts) > 1
                   THEN (IF slashIndex >= 1
                         THEN Slice(branchPart, 1, slashIndex - 1)
                         ELSE branchPart)
                   ELSE DEFAULT_REPOSITORY_BRANCH
      repoPath2 == IF EndsWith(repoPath1, <<"/">>)
                   THEN Slice(repoPath1, 1, Len(repoPath1) - 1) ELSE repoPath1
      repoPath3 == IF EndsWith(repoPath2, <<".git">>)
                   THEN Slice(repoPath2, 1, Len(repoPath2) - 1) ELSE repoPath2
  IN HttpsPrefix \o RawHost \o <<"/">> \o repoPath3
       \o <<"/", "refs", "/", "heads", "/">> \o branch \o <<"/">>

\* _build_raw_base
BuildRawBase(repository_url) ==
  LET clean == StripQueryAndFragment(NormalizeRepositoryUrl(repository_url))
  IN IF Contains(clean, RawHost) THEN EnsureTrailingSlash(StripFileName(clean))
     ELSE IF Contains(clean, GithubSlash) THEN GithubRawBase(clean)
     ELSE EnsureTrailingSlash(StripFileName(clean))


\* --------------------------------------------------- reachability checker

\* What one urlopen call can end in: a response object handed back (urllib's
\* default opener hands back 2xx responses only), an HTTPError carrying the
\* status the server answered with (every status urllib neither accepts nor
\* follows: 3xx such as 304 or a redirect without Location, 4xx, 5xx), or
\* another exception (URLError for a network failure, a socket timeout).
Response(status) == [kind |-> "response", status |-> status]

HTTPError(code) == [kind |-> "HTTPError", status |-> code]

Failure(what) == [kind |-> what, status |-> 0]

UrlopenOutcomes ==
  {Response(s) : s \in {200, 204}}
    \cup {HTTPError(c) : c \in {304, 404, 405, 500, 501}}
    \cup {Failure(w) : w \in {"URLError", "timeout"}}

\* Line 27, url_request.Request(url, method="HEAD"): the constructor raises
\* ValueError ("unknown url type") unless the text starts with a scheme, that
\* is one or more characters other than "/" and ":" followed by ":".
RequestRaises(url) ==
  LET u     == Strip(url)
      colon == FirstOf(u, {":"})
  IN ~(/\ colon <= Len(u)
       /\ colon > 1
       /\ \A k \in 1..(colon - 1) : u[k] # "/")

\* Lines 29-31 and 38-40: what the HEAD request's outcome leads to.
AfterHead(outcome) ==
  IF outcome.kind = "response"
  THEN (IF outcome.status < 400 THEN "True" ELSE "False")
  ELSE IF outcome.kind = "HTTPError"
  THEN (IF outcome.status \in {405, 501} THEN "fallback" ELSE "False")
  ELSE "False"

\* Lines 33-37: what the full-fetch request's outcome leads to.
AfterFallback(outcome) ==
  IF outcome.kind = "response"
  THEN (IF outcome.status < 400 THEN "True" ELSE "False")
  ELSE "False"

\* _check_url_exists as its caller sees it: "True", "False", or the exception
\* that leaves the function.
CheckUrlExists(url, head, get) ==
  IF RequestRaises(url) THEN "ValueError"
  ELSE IF AfterHead(head) = "fallback" THEN AfterFallback(get)
  ELSE AfterHead(head)

\* Every result a call on url can have, over all the network's answers.
ProbeResults(url) ==
  {CheckUrlExists(url, h, g) : h \in UrlopenOutcomes, g \in UrlopenOutcomes}

\* ------------------------------------------------------------- variables

VARIABLES
  url_case,       \* normalizer harness: the URL shape handed to _build_raw_base
  url_pc,         \* normalizer harness: "idle" | "call" | "done"
  url_out,        \* normalizer harness: what _build_raw_base returned
  probe_url,      \* _check_url_exists: its url argument
  probe_pc,       \* _check_url_exists: "idle" | "build" | "head" | "fallback" | "done"
  probe_log,      \* _check_url_exists: the requests issued so far, with their outcomes
  probe_result    \* _check_url_exists: "unset" | "True" | "False" | "ValueError"

urlVars == <<url_case, url_pc, url_out>>

probeVars == <<probe_url, probe_pc, probe_log, probe_result>>

UrlIdle ==
  /\ url_case = [form |-> "none", owner |-> <<>>, repo |-> <<>>, branch |-> <<>>]
  /\ url_pc = "idle"
  /\ url_out = <<>>

ProbeIdle ==
  /\ probe_url = <<>>
  /\ probe_pc = "idle"
  /\ probe_log = <<>>
  /\ probe_result = "unset"

GithubHost == HttpsPrefix \o <<"github.com", "/">>

\* ------------------------------------------------------------ JSON values

JNull == [t |-> "null", s |-> <<>>, items |-> <<>>]

JNum == [t |-> "num", s |-> <<>>, items |-> <<>>]

JStr(text) == [t |-> "str", s |-> text, items |-> <<>>]

JList(values) == [t |-> "list", s |-> <<>>, items |-> values]

\* isinstance(v, str) and v.strip()
IsNonBlankStr(v) == v.t = "str" /\ Strip(v.s) # <<>>

\* --------------------------------------------------------------- identity

NoneId == [none |-> TRUE, text |-> <<>>]

SomeId(text) == [none |-> FALSE, text |-> text]

AbsentFile == [st |-> "absent", text |-> <<>>]

UnreadableFile == [st |-> "unreadable", text |-> <<>>]

TextFile(text) == [st |-> "file", text |-> text]

\* str(uuid.uuid4()): a value that no other call returns and that no identity
\* file holds beforehand; call is the number of the call.
UuidValues ==
  <<"g1", "g2", "g3", "g4", "g5", "g6", "g7", "g8",
    "g9", "g10", "g11", "g12", "g13", "g14", "g15", "g16">>

Uuid4(call) == UuidValues[call]

\* What id_path.write_text can end in: written; OSError before the file is
\* created; OSError after it was created, leaving it empty.
WriteOutcomes == {"ok", "fail", "partial"}

\* WriteText with the fault "the identity file is not created during the scan".
WriteTextNever(text, wout) == AbsentFile

\* Line 172, id_path.write_text(f"{package_id}\n").
WriteText(text, wout) ==
  IF wout = "ok" THEN TextFile(text)
  ELSE IF wout = "partial" THEN TextFile(<<>>)
  ELSE AbsentFile

\* ReadIdentity with the fault "the text read is not stripped".
ReadIdentityUnstripped(file) == SomeId(file.text)

\* Line 164, id_path.read_text(encoding="utf-8").strip().
ReadIdentity(file) == SomeId(Strip(file.text))

\* Lines 160-176: the ID of a package directory, the identity file afterwards
\* and the errors appended.  uuid and wout are used only when the file is absent.
ResolveIdentity(file, uuid, wout) ==
  IF file.st # "absent"
  THEN (IF file.st = "unreadable"
        THEN [id |-> NoneId, file |-> file, errs |-> <<"Failed to read autogen_id">>]
        ELSE [id |-> ReadIdentity(file), file |-> file, errs |-> <<>>])
  ELSE [id   |-> SomeId(<<uuid>>),
        file |-> WriteText(<<uuid, "\n">>, wout),
        errs |-> IF wout = "ok" THEN <<>> ELSE <<"Failed to write autogen_id">>]

\* DuplicateErrors with the fault "a repeated ID is not reported".
DuplicateErrorsNever(id, seen) == <<>>

\* Lines 181-185: the duplicate check against the IDs seen so far in the run.
DuplicateErrors(id, seen) ==
  IF id.text \in seen THEN <<"Duplicate id">> ELSE <<>>

\* Lines 178-186: the errors appended and the seen set afterwards.
RegisterIdentity(id, seen) ==
  IF id.none \/ id.text = <<>>
  THEN [errs |-> <<"Missing or empty autogen_id">>, seen |-> seen]
  ELSE [errs |-> DuplicateErrors(id, seen), seen |-> seen \cup {id.text}]

\* ----------------------------------------------------------- field checks

NoRaise(errs) == [errs |-> errs, raises |-> FALSE]

\* Lines 188-200.  The file looked up is manifest_dir / thumbnail, unstripped.
CheckThumbnail(m) ==
  IF ~IsNonBlankStr(m.thumbnail) THEN <<"Missing or invalid thumbnail">>
  ELSE IF m.thumbnail.s \notin m.files THEN <<"Thumbnail not found">>
  ELSE <<>>

\* Lines 214-226: one error at most per entry, in order.
RECURSIVE ImageEntryErrors(_, _)
ImageEntryErrors(images, files) ==
  IF images = <<>> THEN <<>>
  ELSE (IF ~IsNonBlankStr(Head(images)) THEN <<"Invalid image entry">>
        ELSE IF Head(images).s \notin files THEN <<"Image not found">>
        ELSE <<>>) \o ImageEntryErrors(Tail(images), files)

\* Lines 202-226.
CheckImages(m) ==
  IF m.images.t # "list" \/ m.images.items = <<>>
  THEN <<"Missing or invalid images list">>
  ELSE (IF Len(m.images.items) > 8 THEN <<"Too many images">> ELSE <<>>)
         \o ImageEntryErrors(m.images.items, m.files)

\* Lines 228-251.  urlparse raises on an unmatched bracket in the netloc and
\* nothing catches it; reach is what _check_url_exists gave.
CheckRepositoryURL(m, reach) ==
  IF ~IsNonBlankStr(m.repositoryURL)
  THEN NoRaise(<<"Missing or invalid repositoryURL">>)
  ELSE LET parsed == UrlParse(m.repositoryURL.s)
       IN IF parsed.raises THEN [errs |-> <<>>, raises |-> TRUE]
          ELSE IF parsed.scheme \notin {<<"http">>, <<"https">>}
          THEN NoRaise(<<"repositoryURL must be http/https">>)
          ELSE IF ~EndsWith(parsed.netloc, <<"github.com">>)
          THEN NoRaise(<<"repositoryURL must point to github.com">>)
          ELSE IF reach = "True" THEN NoRaise(<<>>)
          ELSE IF reach = "False" THEN NoRaise(<<"repositoryURL is not reachable">>)
          ELSE [errs |-> <<>>, raises |-> TRUE]

\* Whether the repositoryURL check gets as far as calling _check_url_exists.
NeedsProbe(m) ==
  /\ m.kind = "object"
  /\ IsNonBlankStr(m.repositoryURL)
  /\ LET parsed == UrlParse(m.repositoryURL.s)
     IN /\ ~parsed.raises
        /\ parsed.scheme \in {<<"http">>, <<"https">>}
        /\ EndsWith(parsed.netloc, <<"github.com">>)

\* Word atoms that match [A-Za-z_]+.
TagWords == {"a", "b_c", "c", "D"}

\* re.fullmatch(r"[A-Za-z_]+", tag)
TagMatches(tag) == tag # <<>> /\ \A k \in 1..Len(tag) : tag[k] \in TagWords

\* Lines 253-273.
CheckTags(m) ==
  IF ~IsNonBlankStr(m.tags) THEN <<"Missing or empty tags">>
  ELSE IF Contains(m.tags.s, <<" ">>) THEN <<"Tags must not contain spaces">>
  ELSE LET tags == Split(m.tags.s, <<",">>)
       IN IF \E k \in 1..Len(tags) : ~TagMatches(tags[k])
          THEN <<"Invalid tag(s)">> ELSE <<>>

\* Base64 text, one atom per group of four characters: "QUJD" decodes to the
\* three characters "ABC", "w6k=" to the one character U+00E9 (two bytes),
\* "/w==" to the byte FF, which is no UTF-8; any other atom is no base64.  A
\* padded group is legal only as the last one.
Base64Chars(atom) ==
  CASE atom = "QUJD" -> 3
    [] atom = "w6k=" -> 1
    [] OTHER -> 0

Base64Groups == {"QUJD", "w6k=", "/w=="}

Base64Padded == {"w6k=", "/w=="}

\* base64.b64decode(text, validate=True).decode("utf-8") succeeds.
Base64Decodes(text) ==
  /\ \A k \in 1..Len(text) : text[k] \in Base64Groups
  /\ \A k \in 1..(Len(text) - 1) : text[k] \notin Base64Padded
  /\ \A k \in 1..Len(text) : text[k] # "/w=="

\* len() of the decoded text.
RECURSIVE DecodedLen(_)
DecodedLen(text) ==
  IF text = <<>> THEN 0 ELSE Base64Chars(Head(text)) + DecodedLen(Tail(text))

\* Lines 275-296 and 298-319: the same check on titleB64 and descriptionB64.
CheckBase64(value, limit, missing, invalid, exceeds) ==
  IF ~IsNonBlankStr(value) THEN <<missing>>
  ELSE IF ~Base64Decodes(value.s) THEN <<invalid>>
  ELSE IF DecodedLen(value.s) > limit THEN <<exceeds>>
  ELSE <<>>

CheckTitle(m, limit) ==
  CheckBase64(m.titleB64, limit, "Missing or invalid titleB64",
              "Invalid base64 in titleB64", "title exceeds max chars")

CheckDescription(m, limit) ==
  CheckBase64(m.descriptionB64, limit, "Missing or invalid descriptionB64",
              "Invalid base64 in descriptionB64", "description exceeds max chars")

\* Lines 188-319 in order: the errors appended, how many of the six field
\* checks ran to their end, and whether an exception left the loop body.  A
\* manifest that is no JSON object has no .get: line 188 raises AttributeError.
FieldChecks(m, title_max_length, description_max_length, reach) ==
  LET url == CheckRepositoryURL(m, reach)
      upToUrl == CheckThumbnail(m) \o CheckImages(m)
  IN IF m.kind # "object" THEN [errs |-> <<>>, ran |-> 0, raises |-> TRUE]
     ELSE IF url.raises THEN [errs |-> upToUrl, ran |-> 2, raises |-> TRUE]
     ELSE [errs |-> upToUrl \o url.errs \o CheckTags(m)
                      \o CheckTitle(m, title_max_length)
                      \o CheckDescription(m, description_max_length),
           ran |-> 6, raises |-> FALSE]

\* ------------------------------------------------------------ transformer

\* Lines 324-330: the media folder of the record.
MediaFolder(m, rel_package_dir) ==
  LET folder == IF m.mediaFolder.t = "str" THEN Strip(m.mediaFolder.s) ELSE <<>>
  IN IF folder = <<>> THEN <<"/">> \o rel_package_dir
     ELSE IF ~StartsWith(folder, <<"/">>) THEN <<"/">> \o folder
     ELSE folder

\* Lines 338-341 and 348-351: f"{repo_base}packages{folder}/{name}".
MediaUrl(repo_base, folder, name) ==
  repo_base \o <<"packages">> \o folder \o <<"/">> \o LStrip(Strip(name), {"/"})

\* Lines 333-344.
RECURSIVE NormalizedImages(_, _, _)
NormalizedImages(images, repo_base, folder) ==
  IF images = <<>> THEN <<>>
  ELSE <<IF Head(images).t = "str"
         THEN JStr(MediaUrl(repo_base, folder, Head(images).s))
         ELSE Head(images)>> \o NormalizedImages(Tail(images), repo_base, folder)

\* Lines 321-351: the output record; mediaFolder is not among its keys.
Transform(m, package_id, username_from_path, rel_package_dir, repo_base) ==
  LET folder == MediaFolder(m, rel_package_dir)
  IN [id          |-> package_id,
      userName    |-> username_from_path,
      images      |-> IF m.images.t = "list"
                      THEN JList(NormalizedImages(m.images.items, repo_base, folder))
                      ELSE m.images,
      thumbnail   |-> IF IsNonBlankStr(m.thumbnail)
                      THEN JStr(MediaUrl(repo_base, folder, m.thumbnail.s))
                      ELSE m.thumbnail,
      repositoryURL  |-> m.repositoryURL,
      tags           |-> m.tags,
      titleB64       |-> m.titleB64,
      descriptionB64 |-> m.descriptionB64]

\* ------------------------------------------------------------------ inputs

MaxPackages == 2

\* The package directories under packages/, in the order sorted() gives the
\* manifest paths: packages/<owner>/pkg/manifest.json.
Owners == <<"alice", "bob", "carol", "dave", "erin">>

\* manifest_path.parent.relative_to(packages_root).as_posix()
RelPackageDir(i) == <<Owners[i], "/", "pkg">>

\* config.get("titleMaxLength", 100) and config.get("descriptionMaxLength", 500)
DefaultTitleMaxLength == 100

DefaultDescriptionMaxLength == 500

\* config.json as _get_config finds it: an object with a usable "url" and no
\* limits; one with a tree URL and small limits; one _get_config rejects.
Configs ==
  {[valid |-> TRUE, url |-> GithubHost \o <<"alice", "/", "pkg">>,
    hasLimits |-> FALSE, titleMaxLength |-> 0, descriptionMaxLength |-> 0],
   [valid |-> TRUE,
    url |-> <<"github.com", "/", "alice", "/", "pkg", "/", "tree", "/", "dev">>,
    hasLimits |-> TRUE, titleMaxLength |-> 4, descriptionMaxLength |-> 5],
   [valid |-> FALSE, url |-> <<>>,
    hasLimits |-> FALSE, titleMaxLength |-> 0, descriptionMaxLength |-> 0]}

\* A manifest all of whose fields pass, beside the media files it names.
ValidManifest ==
  [kind           |-> "object",
   thumbnail      |-> JStr(<<"thumb.png">>),
   images         |-> JList(<<JStr(<<"a.png">>), JStr(<<"/", "b.png">>)>>),
   repositoryURL  |-> JStr(GithubHost \o <<"alice", "/", "pkg">>),
   tags           |-> JStr(<<"a", ",", "b_c", ",", "D">>),
   titleB64       |-> JStr(<<"QUJD">>),
   descriptionB64 |-> JStr(<<"QUJD", "w6k=">>),
   mediaFolder    |-> JNull,
   files          |-> {<<"thumb.png">>, <<"a.png">>, <<"/", "b.png">>}]

\* The same manifest with its thumbnail file missing from the directory.
MissingThumbnailManifest ==
  [ValidManifest EXCEPT !.files = {<<"a.png">>, <<"/", "b.png">>}]

\* A manifest invalid in every field (the description only under small limits).
ManyInvalidManifest ==
  [kind           |-> "object",
   thumbnail      |-> JNull,
   images         |-> JList(<<>>),
   repositoryURL  |-> JStr(<<"ftp", ":", "/", "/", "github.com", "/", "alice">>),
   tags           |-> JStr(<<"a", " ", "b_c", ",", "c">>),
   titleB64       |-> JStr(<<"/w==">>),
   descriptionB64 |-> JStr(<<"QUJD", "QUJD">>),
   mediaFolder    |-> JStr(<<" ", "media">>),
   files          |-> {}]

\* Nine images, one of them no string and one not on disk; an invalid tag;
\* a host that is not github.com; a title of six characters.
BadImagesManifest ==
  [ValidManifest EXCEPT
     !.images = JList(<<JStr(<<"a.png">>), JNum, JStr(<<"c.png">>),
                        JStr(<<"a.png">>), JStr(<<"a.png">>), JStr(<<"a.png">>),
                        JStr(<<"a.png">>), JStr(<<"a.png">>), JStr(<<"a.png">>)>>),
     !.repositoryURL = JStr(HttpsPrefix \o <<"example.org", "/", "alice">>),
     !.tags = JStr(<<"a", ",", "1b">>),
     !.titleB64 = JStr(<<"QUJD", "QUJD">>),
     !.mediaFolder = JStr(<<"/", "media">>)]

\* A repositoryURL with an unmatched bracket, "http://[", and invalid tags.
BracketUrlManifest ==
  [ValidManifest EXCEPT
     !.repositoryURL = JStr(HttpPrefix \o <<"[">>),
     !.tags = JStr(<<"1b">>)]

\* manifest.json holding valid JSON that is no object, such as [].
NonObjectManifest == [ValidManifest EXCEPT !.kind = "list"]

\* manifest.json that json.load rejects (JSONDecodeError).
MalformedManifest == [ValidManifest EXCEPT !.kind = "malformed"]

\* manifest.json that cannot be opened (OSError).
UnreadableManifest == [ValidManifest EXCEPT !.kind = "unreadable"]

ManifestSamples ==
  {ValidManifest, MissingThumbnailManifest, ManyInvalidManifest, BadImagesManifest,
   BracketUrlManifest, NonObjectManifest, MalformedManifest, UnreadableManifest}

\* The autogen_id files a run can find: none; one that cannot be read; an
\* empty one; "u1\n"; " u1", the same ID once stripped.
IdFileStates ==
  {AbsentFile, UnreadableFile, TextFile(<<>>), TextFile(<<"u1", "\n">>),
   TextFile(<<" ", "u1">>)}

\* What opening and writing one output file can end in.
OutputOutcomes == {"ok", "open fails", "write fails"}

\* ------------------------------------------------------------ main: state

VARIABLES
  n,              \* disk: the number of manifest.json files under packages/
  idFile,         \* disk: the autogen_id file beside each manifest
  pc,             \* main: "start" | "scan" | "write_json" | "write_gzip" |
                  \*       "write_version" | "exit0" | "exit1" | "crashed"
  config,         \* main: the config _get_config returned
  repo_base,      \* main: _build_raw_base(config["url"])
  idx,            \* main: the position of the loop over manifest_paths
  errors,         \* main: the accumulated error list
  manifests,      \* main: the output records
  seen_ids,       \* main: the IDs seen in this run
  written,        \* disk: the output files this run opened for writing
  stdout,         \* what the run printed
  obs,            \* history: one entry per manifest the loop took up
  idFile0,        \* history: the identity files when the run started
  run,            \* identity harness: the number of the run
  prev_ids        \* identity harness: the ID each package got in the run before

mainVars ==
  <<n, idFile, pc, config, repo_base, idx, errors, manifests, seen_ids, written,
    stdout, obs, idFile0, run, prev_ids>>

vars == <<mainVars, probeVars, urlVars>>

NoConfig ==
  [valid |-> FALSE, url |-> <<>>,
   hasLimits |-> FALSE, titleMaxLength |-> 0, descriptionMaxLength |-> 0]

MainStart ==
  /\ pc = "start"
  /\ config = NoConfig
  /\ repo_base = <<>>
  /\ idx = 1
  /\ errors = <<>>
  /\ manifests = <<>>
  /\ seen_ids = {}
  /\ written = {}
  /\ stdout = <<>>
  /\ obs = <<>>
  /\ idFile0 = idFile
  /\ run = 1
  /\ prev_ids = <<>>

MainIdle ==
  /\ n = 0
  /\ idFile = <<>>
  /\ MainStart

Init ==
  /\ n \in 0..MaxPackages
  /\ idFile \in [1..n -> IdFileStates]
  /\ MainStart
  /\ ProbeIdle
  /\ UrlIdle

\* An error message: its kind and the package label it names.
Err(kind, i) == [kind |-> kind, label |-> i]

RECURSIVE Labelled(_, _)
Labelled(kinds, i) ==
  IF kinds = <<>> THEN <<>> ELSE <<Err(Head(kinds), i)>> \o Labelled(Tail(kinds), i)

title_max_length ==
  IF config.hasLimits THEN config.titleMaxLength ELSE DefaultTitleMaxLength

description_max_length ==
  IF config.hasLimits THEN config.descriptionMaxLength ELSE DefaultDescriptionMaxLength

\* ---------------------------------------------------------- main: actions

\* Lines 124-139: no manifest or no usable config ends the run at once.
Start ==
  /\ pc = "start"
  /\ \E cfg \in Configs :
       IF n = 0
       THEN /\ pc' = "exit1"
            /\ stdout' = <<Err("No manifest.json files found", 0)>>
            /\ UNCHANGED <<config, repo_base>>
       ELSE IF ~cfg.valid
       THEN /\ pc' = "exit1"
            /\ stdout' = <<Err("Failed to read config.json", 0)>>
            /\ UNCHANGED <<config, repo_base>>
       ELSE /\ pc' = "scan"
            /\ config' = cfg
            /\ repo_base' = BuildRawBase(cfg.url)
            /\ UNCHANGED stdout
  /\ UNCHANGED <<n, idFile, idx, errors, manifests, seen_ids, written, obs,
                 idFile0, run, prev_ids, probeVars, urlVars>>

\* The history entry of one pass of the loop body.
Observed(i, m, had, wrote, id, dup, reach, ran, raised, transformed, nerrs) ==
  [label |-> i, manifest |-> m, had |-> had, wrote |-> wrote, id |-> id,
   dup |-> dup, reach |-> reach, ran |-> ran, raised |-> raised,
   transformed |-> transformed, nerrs |-> nerrs]

\* RecordsAfter with the fault "only a manifest without errors gets a record".
RecordsAfterOnlyValid(records, record, errs) ==
  IF errs = <<>> THEN Append(records, record) ELSE records

\* Line 353 (with 321-351): the record list after the loop body's last line.
RecordsAfter(records, record, errs) == Append(records, record)

\* Lines 141-353: the body of the loop, for the manifest at idx.
ProcessManifest ==
  /\ pc = "scan"
  /\ idx <= n
  /\ \E m \in ManifestSamples :
       IF m.kind \in {"malformed", "unreadable"}
       THEN /\ errors' = Append(errors,
                 Err(IF m.kind = "malformed" THEN "Invalid JSON syntax"
                     ELSE "Failed to read", idx))
            /\ idx' = idx + 1
            /\ obs' = Append(obs, Observed(idx, m, idFile[idx].st, "none", NoneId,
                                           FALSE, "unused", 0, FALSE, FALSE, 1))
            /\ UNCHANGED <<pc, idFile, seen_ids, manifests>>
       ELSE \E uuid \in {Uuid4((run - 1) * n + idx)},
               wout \in (IF idFile[idx].st = "absent" THEN WriteOutcomes ELSE {"none"}),
               reach \in (IF NeedsProbe(m) THEN ProbeResults(m.repositoryURL.s)
                          ELSE {"unused"}) :
              \E ident \in {ResolveIdentity(idFile[idx], uuid, wout)} :
              \E reg \in {RegisterIdentity(ident.id, seen_ids)} :
              \E checks \in {FieldChecks(m, title_max_length, description_max_length,
                                         reach)} :
              \E kinds \in {ident.errs \o reg.errs \o checks.errs} :
                 /\ idFile' = [idFile EXCEPT ![idx] = ident.file]
                 /\ seen_ids' = reg.seen
                 /\ errors' = errors \o Labelled(kinds, idx)
                 /\ obs' = Append(obs,
                      Observed(idx, m, idFile[idx].st, wout, ident.id,
                               reg.errs = <<"Duplicate id">>, reach, checks.ran,
                               checks.raises, ~checks.raises, Len(kinds)))
                 /\ IF checks.raises
                    THEN /\ pc' = "crashed"
                         /\ UNCHANGED <<idx, manifests>>
                    ELSE /\ manifests' = RecordsAfter(manifests,
                              Transform(m, ident.id, Owners[idx], RelPackageDir(idx),
                                        repo_base), kinds)
                         /\ idx' = idx + 1
                         /\ UNCHANGED pc
  /\ UNCHANGED <<n, config, repo_base, written, stdout, idFile0, run, prev_ids,
                 probeVars, urlVars>>

\* GateOpen with the fault "the catalog is written whatever the error list holds".
GateOpenAlways(errs) == TRUE

\* Line 355: whether the run goes on to write the catalog.
GateOpen(errs) == errs = <<>>

\* Lines 355-358: after the loop, print the errors and exit, or go on.
Gate ==
  /\ pc = "scan"
  /\ idx > n
  /\ IF GateOpen(errors)
     THEN pc' = "write_json" /\ UNCHANGED stdout
     ELSE pc' = "exit1" /\ stdout' = errors
  /\ UNCHANGED <<n, idFile, config, repo_base, idx, errors, manifests, seen_ids,
                 written, obs, idFile0, run, prev_ids, probeVars, urlVars>>

\* One output file: mkdir and open may raise before the file is opened, the
\* write may raise after; nothing catches either.
WriteOutput(at, file, next) ==
  /\ pc = at
  /\ \E outcome \in OutputOutcomes :
       /\ written' = IF outcome = "open fails" THEN written ELSE written \cup {file}
       /\ pc' = IF outcome = "ok" THEN next ELSE "crashed"
  /\ UNCHANGED <<n, idFile, config, repo_base, idx, errors, manifests, seen_ids,
                 obs, idFile0, run, prev_ids, probeVars, urlVars>>

\* Lines 360-364.
WriteCatalog ==
  WriteOutput("write_json", "autogen_database.json", "write_gzip") /\ UNCHANGED stdout

\* Lines 366-368.
WriteGzip ==
  WriteOutput("write_gzip", "autogen_database.json.gz", "write_version")
    /\ UNCHANGED stdout

\* Lines 370-378.
WriteVersion ==
  /\ WriteOutput("write_version", "autogen_version.txt", "exit0")
  /\ stdout' = IF pc' = "exit0" THEN <<Err("SUCCESS", 0)>> ELSE stdout

Next == Start \/ ProcessManifest \/ Gate \/ WriteCatalog \/ WriteGzip \/ WriteVersion

Spec == Init /\ [][Next]_vars

\* ------------------------------------- the identity step, run after run

MaxRuns == 2

\* The identity step of the loop body (lines 160-186) applied to each package
\* directory in turn, and then again in a later run over the same directories.
\* An autogen_id that cannot be read stays so from one run to the next.
IdentityInit ==
  /\ n \in 1..MaxPackages
  /\ idFile \in [1..n -> IdFileStates]
  /\ MainStart
  /\ ProbeIdle
  /\ UrlIdle

\* Lines 160-186 for the package directory at idx.
IdentityStep ==
  /\ pc = "start"
  /\ idx <= n
  /\ \E uuid \in {Uuid4((run - 1) * n + idx)},
        wout \in (IF idFile[idx].st = "absent" THEN WriteOutcomes ELSE {"none"}) :
       \E ident \in {ResolveIdentity(idFile[idx], uuid, wout)} :
       \E reg \in {RegisterIdentity(ident.id, seen_ids)} :
          /\ idFile' = [idFile EXCEPT ![idx] = ident.file]
          /\ seen_ids' = reg.seen
          /\ errors' = errors \o Labelled(ident.errs \o reg.errs, idx)
          /\ obs' = Append(obs,
               Observed(idx, ValidManifest, idFile[idx].st, wout, ident.id,
                        reg.errs = <<"Duplicate id">>, "unused", 0, FALSE, FALSE,
                        Len(ident.errs \o reg.errs)))
          /\ idx' = idx + 1
  /\ UNCHANGED <<n, pc, config, repo_base, manifests, written, stdout, idFile0, run,
                 prev_ids, probeVars, urlVars>>

\* The next run starts: main's locals are fresh, the disk is as the run left it.
NextRun ==
  /\ pc = "start"
  /\ idx > n
  /\ run < MaxRuns
  /\ run' = run + 1
  /\ prev_ids' = [i \in 1..n |-> [id |-> obs[i].id, wrote |-> obs[i].wrote]]
  /\ idFile0' = idFile
  /\ idx' = 1
  /\ errors' = <<>>
  /\ seen_ids' = {}
  /\ obs' = <<>>
  /\ UNCHANGED <<n, idFile, pc, config, repo_base, manifests, written, stdout,
                 probeVars, urlVars>>

IdentityNext == IdentityStep \/ NextRun

SpecIdentity == IdentityInit /\ [][IdentityNext]_vars

\* ------------------------------------------- _check_url_exists, by steps

\* The url arguments tried: with a scheme and without one.
ProbeUrls ==
  {GithubHost \o <<"alice", "/", "pkg">>,
   GithubHost \o <<"bob", "/", "pkg">>,
   HttpPrefix \o <<"github.com", "/", "alice">>,
   HttpsPrefix \o <<"example.org", "/", "file.ext">>,
   <<"ftp", ":", "/", "/", "example.org">>,
   <<" ">> \o GithubHost \o <<"alice">>,
   <<"github.com", "/", "alice", "/", "pkg">>,
   <<"/", "/", "github.com", "/", "alice">>,
   <<>>}

ProbeInit ==
  /\ probe_url \in ProbeUrls
  /\ probe_pc = "build"
  /\ probe_log = <<>>
  /\ probe_result = "unset"
  /\ MainIdle
  /\ UrlIdle

\* Line 27: build the HEAD request; a ValueError leaves the function.
ProbeBuildRequest ==
  /\ probe_pc = "build"
  /\ IF RequestRaises(probe_url)
     THEN probe_pc' = "done" /\ probe_result' = "ValueError"
     ELSE probe_pc' = "head" /\ probe_result' = probe_result
  /\ UNCHANGED <<probe_url, probe_log, urlVars, mainVars>>

\* Lines 28-31, 38-40: send the HEAD request.
ProbeHead ==
  /\ probe_pc = "head"
  /\ \E o \in UrlopenOutcomes :
       /\ probe_log' = Append(probe_log, [method |-> "HEAD", outcome |-> o])
       /\ IF AfterHead(o) = "fallback"
          THEN probe_pc' = "fallback" /\ probe_result' = probe_result
          ELSE probe_pc' = "done" /\ probe_result' = AfterHead(o)
  /\ UNCHANGED <<probe_url, urlVars, mainVars>>

\* Lines 32-37: send the full-fetch request.
ProbeFallback ==
  /\ probe_pc = "fallback"
  /\ \E o \in UrlopenOutcomes :
       /\ probe_log' = Append(probe_log, [method |-> "GET", outcome |-> o])
       /\ probe_pc' = "done"
       /\ probe_result' = AfterFallback(o)
  /\ UNCHANGED <<probe_url, urlVars, mainVars>>

\* ---------------------------------------------- _build_raw_base, applied

MaxSegAtoms == 1

SegAtoms == {"alice", "pkg", "tree", "dev", ".git", "raw.githubusercontent.com"}

\* Non-empty path segments: one to MaxSegAtoms atoms, none of them a separator.
Segments == UNION {[1..len -> SegAtoms] : len \in 1..MaxSegAtoms}

UrlForms == {"plain", "slash", "git", "tree", "raw", "other", "bare"}

UrlCases ==
  {c \in [form : UrlForms, owner : Segments, repo : Segments, branch : Segments] :
     c.form # "tree" => c.branch = <<"dev">>}

\* The text of a case.
UrlText(c) ==
  LET ownerRepo == c.owner \o <<"/">> \o c.repo
  IN CASE c.form = "plain" -> GithubHost \o ownerRepo
       [] c.form = "slash" -> GithubHost \o ownerRepo \o <<"/">>
       [] c.form = "git"   -> GithubHost \o ownerRepo \o <<".git">>
       [] c.form = "tree"  -> GithubHost \o ownerRepo \o <<"/", "tree", "/">>
                                \o c.branch \o <<"/", "sub", "/", "dir">>
       [] c.form = "raw"   -> HttpsPrefix \o RawHost \o <<"/">> \o ownerRepo
                                \o <<"/", "main", "/", "file.ext">>
       [] c.form = "other" -> HttpsPrefix \o <<"example.org", "/">> \o ownerRepo
                                \o <<"?", "x", "#", "y">>
       [] OTHER            -> <<" ", "github.com", "/">> \o ownerRepo \o <<"\n">>

UrlInit ==
  /\ url_case \in UrlCases
  /\ url_pc = "call"
  /\ url_out = <<>>
  /\ MainIdle
  /\ ProbeIdle

Normalize ==
  /\ url_pc = "call"
  /\ url_out' = BuildRawBase(UrlText(url_case))
  /\ url_pc' = "done"
  /\ UNCHANGED <<url_case, probeVars, mainVars>>

ProbeNext == ProbeBuildRequest \/ ProbeHead \/ ProbeFallback

SpecProbe == ProbeInit /\ [][ProbeNext]_vars

UrlNext == Normalize

SpecUrl == UrlInit /\ [][UrlNext]_vars


\* ------------------------------------------------------------- properties

OutputFiles == {"autogen_database.json", "autogen_database.json.gz", "autogen_version.txt"}

\* Some error in the list names package i.
HasError(i) == \E k \in 1..Len(errors) : errors[k].label = i

\* The manifests whose loop body ran to its last line, in scan order.
Completed == SelectSeq(obs, LAMBDA o : o.ran = 6 /\ ~o.raised)

\* The identity step gave a non-empty ID without any error.
IdentityClean(o) ==
  ~o.id.none /\ o.id.text # <<>> /\ ~o.dup /\ o.wrote \in {"none", "ok"}

FullyValid(o) ==
  o.manifest = ValidManifest /\ o.reach = "True" /\ IdentityClean(o)

OnlyThumbnailMissing(o) ==
  o.manifest = MissingThumbnailManifest /\ o.reach = "True" /\ IdentityClean(o)

\* The loop took up every manifest; manifest a lacks its thumbnail file and is
\* valid otherwise; every other manifest is fully valid.
OneMissingThumbnail(a) ==
  /\ Len(obs) = n
  /\ OnlyThumbnailMissing(obs[a])
  /\ \A b \in (1..n) \ {a} : FullyValid(obs[b])

\* C1: no output file is opened for writing unless the error list is empty
\* after all manifests were processed; and when one manifest lacks its
\* thumbnail file and every other one is fully valid, the run exits with
\* failure, writes no output file, and the error list (which it prints) holds
\* exactly that one thumbnail error.
C1_AllOrNothing ==
  /\ written # {} => (errors = <<>> /\ idx > n)
  /\ pc \in {"write_json", "write_gzip", "write_version", "exit0"}
       => (errors = <<>> /\ idx > n)
  /\ \A a \in 1..n :
       (pc \notin {"start", "scan"} /\ OneMissingThumbnail(a))
         => /\ pc = "exit1"
            /\ written = {}
            /\ errors = <<Err("Thumbnail not found", a)>>
            /\ stdout = errors

C1_Witness ==
  /\ pc = "exit1"
  /\ n = 2
  /\ OneMissingThumbnail(1)
  /\ written = {}

\* C2: in every catalog that is written, the ids of the output records are
\* pairwise distinct.
C2_UniqueIds ==
  (written # {} \/ pc \in {"write_json", "write_gzip", "write_version", "exit0"})
    => \A i, j \in 1..Len(manifests) : i # j => manifests[i].id # manifests[j].id

C2_Witness ==
  /\ written = OutputFiles
  /\ Len(manifests) = 2
  /\ obs[1].had = "file"
  /\ obs[2].had = "absent"

\* An autogen_id file that exists when a run starts is not written by the run.
NeverOverwritten == \A i \in 1..n : idFile0[i].st # "absent" => idFile[i] = idFile0[i]

SeenEarlier(k) == \E j \in 1..(k - 1) : obs[j].id = obs[k].id

\* C4: whenever a manifest's non-empty ID equals the ID of a manifest
\* processed earlier in the run, a duplicate-ID error is appended for the
\* later manifest, the ID stays in the seen set, and the remaining field
\* checks and the transformation of that manifest still run; the first
\* manifest carrying the ID gets no duplicate-ID error.
C4_DuplicateKeepsGoing ==
  \A k \in 1..Len(obs) :
    (obs[k].manifest.kind \in {"object", "list"} /\ ~obs[k].id.none
       /\ obs[k].id.text # <<>>)
      => IF SeenEarlier(k)
         THEN /\ \E e \in 1..Len(errors) :
                   errors[e] = Err("Duplicate id", obs[k].label)
              /\ obs[k].id.text \in seen_ids
              /\ obs[k].ran = 6
              /\ obs[k].transformed
         ELSE \A e \in 1..Len(errors) : errors[e] # Err("Duplicate id", obs[k].label)

\* How many of the six fields of an observed manifest fail their own check.
InvalidFields(o) ==
  (IF CheckThumbnail(o.manifest) # <<>> THEN 1 ELSE 0)
  + (IF CheckImages(o.manifest) # <<>> THEN 1 ELSE 0)
  + (IF CheckRepositoryURL(o.manifest, o.reach).raises
        \/ CheckRepositoryURL(o.manifest, o.reach).errs # <<>> THEN 1 ELSE 0)
  + (IF CheckTags(o.manifest) # <<>> THEN 1 ELSE 0)
  + (IF CheckTitle(o.manifest, title_max_length) # <<>> THEN 1 ELSE 0)
  + (IF CheckDescription(o.manifest, description_max_length) # <<>> THEN 1 ELSE 0)

\* C5: for every manifest that parses as a JSON object, each of the six field
\* checks is executed whatever the identity step and the other checks found,
\* so a manifest invalid in k fields adds at least k errors, and processing
\* then goes on to the next manifest.
C5_AccumulateAll ==
  \A k \in 1..Len(obs) :
    obs[k].manifest.kind = "object"
      => /\ obs[k].ran = 6
         /\ ~obs[k].raised
         /\ obs[k].nerrs >= InvalidFields(obs[k])

LastOutcome == probe_log[Len(probe_log)].outcome

\* C7: the probe first issues one HEAD request; it issues a second, full
\* fetch request only if the first was answered with 405 or 501, and never
\* more than once; it returns true exactly when the last request issued got
\* a status below 400, and false for every other outcome.
C7_TwoStepProtocol ==
  /\ Len(probe_log) <= 2
  /\ Len(probe_log) >= 1 => probe_log[1].method = "HEAD"
  /\ Len(probe_log) = 2
       => /\ probe_log[2].method = "GET"
          /\ probe_log[1].outcome \in {HTTPError(405), HTTPError(501)}
  /\ (probe_pc = "done" /\ probe_log # <<>>)
       => /\ probe_result \in {"True", "False"}
          /\ probe_result = "True"
               <=> (LastOutcome.kind \in {"response", "HTTPError"}
                      /\ LastOutcome.status < 400)

\* C8: the probe never raises to its caller: whatever the URL text and
\* whatever fails, the call returns a boolean.
C8_NeverRaises == probe_pc = "done" => probe_result \in {"True", "False"}

\* What C9 says _build_raw_base returns for owner, repo and branch.
ExpectedRawBase(owner, repo, branch) ==
  HttpsPrefix \o RawHost \o <<"/">> \o owner \o <<"/">> \o repo
    \o <<"/", "refs", "/", "heads", "/">> \o branch \o <<"/">>

\* C9: for every owner, repo and branch, https://github.com/<owner>/<repo>
\* (with or without a trailing "/" or ".git") maps to
\* https://raw.githubusercontent.com/<owner>/<repo>/refs/heads/main/, and
\* https://github.com/<owner>/<repo>/tree/<branch>/sub/dir maps to
\* https://raw.githubusercontent.com/<owner>/<repo>/refs/heads/<branch>/.
C9_GithubForms ==
  url_pc = "done"
    => /\ url_case.form \in {"plain", "slash", "git"}
            => url_out = ExpectedRawBase(url_case.owner, url_case.repo, <<"main">>)
       /\ url_case.form = "tree"
            => url_out = ExpectedRawBase(url_case.owner, url_case.repo, url_case.branch)

\* C10: the identity file is created during the scan, outside the
\* all-or-nothing gate: for every manifest that parsed as JSON and had no
\* autogen_id, a write was made, and when it succeeded the file is on disk
\* with the ID from then on, also when the run ends with errors and writes no
\* catalog; a manifest that did not parse gets no identity file in the run.
C10_IdentityFileOutlastsGate ==
  \A k \in 1..Len(obs) :
    /\ (obs[k].manifest.kind \in {"object", "list"} /\ obs[k].had = "absent")
         => /\ obs[k].wrote \in WriteOutcomes
            /\ obs[k].wrote = "ok"
                 => idFile[obs[k].label] = TextFile(obs[k].id.text \o <<"\n">>)
    /\ obs[k].manifest.kind \in {"malformed", "unreadable"}
         => idFile[obs[k].label] = idFile0[obs[k].label]

C10_Witness ==
  /\ pc = "exit1"
  /\ written = {}
  /\ n = 2
  /\ Len(obs) = 2
  /\ obs[1].had = "absent" /\ obs[1].wrote = "ok" /\ obs[1].nerrs > 0
  /\ idFile[1].st = "file"
  /\ obs[2].manifest.kind = "malformed" /\ idFile[2].st = "absent"
=============================================================================
